---- MODULE Spec2Model ----
(***************************************************************************)
(* A model of HuntLens: the artifact classifier and detection-query        *)
(* generator (capability_mapper.py), the playbook validator (schema.py),   *)
(* the repository snapshot fetcher (repo_fetcher.py) and the keyword       *)
(* retriever (retriever.py).                                               *)
(*                                                                         *)
(* Python str values are TLA+ strings (Len, SubSeq and \o act on them as   *)
(* on Python strings).  A Python value that may be None is the pair        *)
(* <<"None", "">> or <<"str", s>>.                                         *)
(***************************************************************************)
EXTENDS Integers, Sequences, FiniteSets, TLC

VARIABLES
    artifact,       \* capability_mapper: the `artifact` argument (str or None)
    artifact_type,  \* capability_mapper: the `artifact_type` / `t` argument
    called,         \* capability_mapper: the function applied ("" before a call)
    raised,         \* capability_mapper: the exception the call raised ("" if none)
    ret,            \* capability_mapper: the value the call returned
    obj,            \* schema: the argument of ensure_schema
    s_called,       \* schema: whether ensure_schema has been applied
    s_raised,       \* schema: the exception ensure_schema raised ("" if none)
    s_ret,          \* schema: the value ensure_schema returned
    url,            \* repo_fetcher: the `url` argument
    env,            \* repo_fetcher: GitPython / network / file-system conditions
    tree,           \* repo_fetcher: the files under the repository root, walk order
    pc,             \* repo_fetcher: position inside fetch_repo_snapshot
    result,         \* repo_fetcher: the `result` dict
    files,          \* repo_fetcher: the `files` list of collect_files_and_samples
    idx,            \* repo_fetcher: number of walked files already handled
    tmpdir,         \* repo_fetcher: state of the temporary clone directory
    exc,            \* repo_fetcher: the exception the try block raised ("" if none)
    data_files,     \* retriever: the *.json files of DATA_DIRS, in listing order
    query,          \* retriever: the `query` argument of search
    max_results,    \* retriever: the `max_results` argument of search
    r_called,       \* retriever: whether search has been applied
    r_ret           \* retriever: the list search returned

mapperVars == <<artifact, artifact_type, called, raised, ret>>
schemaVars == <<obj, s_called, s_raised, s_ret>>
fetchVars  == <<url, env, tree, pc, result, files, idx, tmpdir, exc>>
searchVars == <<data_files, query, max_results, r_called, r_ret>>
vars == <<artifact, artifact_type, called, raised, ret,
          obj, s_called, s_raised, s_ret,
          url, env, tree, pc, result, files, idx, tmpdir, exc,
          data_files, query, max_results, r_called, r_ret>>

(***************************************************************************)
(* Python values and string primitives                                     *)
(***************************************************************************)
None == <<"None", "">>
Str(s) == <<"str", s>>
IsNone(v) == v[1] = "None"

\* `v or ""` for v a str or None.
OrEmpty(v) == IF IsNone(v) THEN "" ELSE v[2]

\* f"{v}": a str is inserted as it is, None as the text None.
Format(v) == IF IsNone(v) THEN "None" ELSE v[2]

Ch(s, i) == SubSeq(s, i, i)

LowerLetters == "abcdefghijklmnopqrstuvwxyz"
UpperLetters == "ABCDEFGHIJKLMNOPQRSTUVWXYZ"
LowerSet == {Ch(LowerLetters, i) : i \in 1..26}
UpperSet == {Ch(UpperLetters, i) : i \in 1..26}
AlphaSet == LowerSet \cup UpperSet
DigitSet == {"0", "1", "2", "3", "4", "5", "6", "7", "8", "9"}
HexSet   == DigitSet \cup {"a", "b", "c", "d", "e", "f", "A", "B", "C", "D", "E", "F"}
\* The ASCII characters str.strip() removes that a TLA+ string can hold.
Whitespace == {" ", "\t", "\n", "\r", "\f"}

UpperCh(c) ==
    IF c \in LowerSet
    THEN Ch(UpperLetters, CHOOSE i \in 1..26 : Ch(LowerLetters, i) = c)
    ELSE c
LowerCh(c) ==
    IF c \in UpperSet
    THEN Ch(LowerLetters, CHOOSE i \in 1..26 : Ch(UpperLetters, i) = c)
    ELSE c

RECURSIVE StrUpper(_)
StrUpper(s) ==
    IF s = "" THEN "" ELSE UpperCh(Ch(s, 1)) \o StrUpper(SubSeq(s, 2, Len(s)))

RECURSIVE StrLower(_)
StrLower(s) ==
    IF s = "" THEN "" ELSE LowerCh(Ch(s, 1)) \o StrLower(SubSeq(s, 2, Len(s)))

\* str.strip(chars): every leading and every trailing character of `chars`.
StrStrip(s, chars) ==
    IF \A i \in 1..Len(s) : Ch(s, i) \in chars
    THEN ""
    ELSE LET first == CHOOSE i \in 1..Len(s) :
                          /\ Ch(s, i) \notin chars
                          /\ \A j \in 1..(i - 1) : Ch(s, j) \in chars
             last  == CHOOSE i \in 1..Len(s) :
                          /\ Ch(s, i) \notin chars
                          /\ \A j \in (i + 1)..Len(s) : Ch(s, j) \in chars
         IN  SubSeq(s, first, last)

\* `a in q` for two str values.
Contains(q, a) ==
    \E i \in 1..(Len(q) - Len(a) + 1) : SubSeq(q, i, i + Len(a) - 1) = a

AllIn(s, chars) == \A i \in 1..Len(s) : Ch(s, i) \in chars

\* s.split(sep) for a one-character separator.
RECURSIVE Split(_, _)
Split(s, sep) ==
    IF \A i \in 1..Len(s) : Ch(s, i) # sep
    THEN <<s>>
    ELSE LET k == CHOOSE i \in 1..Len(s) :
                      /\ Ch(s, i) = sep
                      /\ \A j \in 1..(i - 1) : Ch(s, j) # sep
         IN  <<SubSeq(s, 1, k - 1)>> \o Split(SubSeq(s, k + 1, Len(s)), sep)

(***************************************************************************)
(* capability_mapper.py: the compiled patterns                             *)
(***************************************************************************)
SHA256_LEN == 64
SHA1_LEN   == 40
MD5_LEN    == 32
DOMAIN_MAX == 253
LABEL_MAX  == 63
MITRE_DIGITS     == 4
MITRE_SUB_DIGITS == 3

\* A pattern ending in `$` given to re.match accepts the whole string and
\* also the string up to one final line feed: the texts ^...$ may span.
DollarSpans(s) ==
    {s} \cup (IF Len(s) > 0 /\ Ch(s, Len(s)) = "\n" THEN {SubSeq(s, 1, Len(s) - 1)} ELSE {})

\* (?:25[0-5]|2[0-4]\d|1?\d{1,2})
IpGroup(g) ==
    \/ Len(g) = 3 /\ SubSeq(g, 1, 2) = "25" /\ Ch(g, 3) \in {"0", "1", "2", "3", "4", "5"}
    \/ Len(g) = 3 /\ Ch(g, 1) = "2" /\ Ch(g, 2) \in {"0", "1", "2", "3", "4"}
                  /\ Ch(g, 3) \in DigitSet
    \/ Len(g) \in 1..2 /\ AllIn(g, DigitSet)
    \/ Len(g) \in 2..3 /\ Ch(g, 1) = "1" /\ AllIn(g, DigitSet)

IpWhole(s) ==
    LET parts == Split(s, ".")
    IN  Len(parts) = 4 /\ \A i \in 1..4 : IpGroup(parts[i])
IP_RE(s) == \E x \in DollarSpans(s) : IpWhole(x)

\* (?=.{1,253}$)(?!-)(?:[A-Za-z0-9-]{1,63}(?<!-)\.)+[A-Za-z]{2,63}
DomainWhole(s) ==
    LET parts == Split(s, ".")
        n     == Len(parts)
    IN  /\ Len(s) \in 1..DOMAIN_MAX
        /\ \A i \in 1..Len(s) : Ch(s, i) # "\n"
        /\ Ch(s, 1) # "-"
        /\ n >= 2
        /\ \A i \in 1..(n - 1) :
              /\ Len(parts[i]) \in 1..LABEL_MAX
              /\ AllIn(parts[i], AlphaSet \cup DigitSet \cup {"-"})
              /\ Ch(parts[i], Len(parts[i])) # "-"
        /\ Len(parts[n]) \in 2..LABEL_MAX
        /\ AllIn(parts[n], AlphaSet)
DOMAIN_RE(s) == \E x \in DollarSpans(s) : DomainWhole(x)

HexWhole(s, n) == Len(s) = n /\ AllIn(s, HexSet)
Sha256Whole(s) == HexWhole(s, SHA256_LEN)
\* [A-Fa-f0-9]{40,} in place of [A-Fa-f0-9]{40}
Sha1Whole_or_longer(s) == Len(s) >= SHA1_LEN /\ AllIn(s, HexSet)
Sha1Whole(s)   == HexWhole(s, SHA1_LEN)
Md5Whole(s)    == HexWhole(s, MD5_LEN)
SHA256_RE(s) == \E x \in DollarSpans(s) : Sha256Whole(x)
SHA1_RE(s)   == \E x \in DollarSpans(s) : Sha1Whole(x)
MD5_RE(s)    == \E x \in DollarSpans(s) : Md5Whole(x)

\* t\d{4}(?:\.\d{3})? under re.IGNORECASE
MitreWhole(s) ==
    /\ Len(s) >= 1 + MITRE_DIGITS
    /\ Ch(s, 1) \in {"t", "T"}
    /\ AllIn(SubSeq(s, 2, 1 + MITRE_DIGITS), DigitSet)
    /\ \/ Len(s) = 1 + MITRE_DIGITS
       \/ /\ Len(s) = 2 + MITRE_DIGITS + MITRE_SUB_DIGITS
          /\ Ch(s, 2 + MITRE_DIGITS) = "."
          /\ AllIn(SubSeq(s, 3 + MITRE_DIGITS, Len(s)), DigitSet)
MITRE_RE(s) == \E x \in DollarSpans(s) : MitreWhole(x)

(***************************************************************************)
(* capability_mapper.py: the functions                                     *)
(***************************************************************************)
\* What a call does: it returns a value or raises an exception.
Return(v) == [raised |-> "", value |-> v]
Raise(e)  == [raised |-> e, value |-> None]

aliases ==
    ("ioc" :> "ioc") @@ ("indicator" :> "ioc") @@ ("process" :> "process") @@
    ("proc" :> "process") @@ ("mitre" :> "mitre") @@ ("technique" :> "mitre") @@
    ("repo" :> "repo") @@ ("github" :> "repo") @@ ("url" :> "ioc") @@
    ("hash" :> "ioc")

normalize_artifact_type(t) ==
    LET t1 == StrLower(StrStrip(OrEmpty(t), Whitespace))
    IN  IF t1 \in DOMAIN aliases THEN aliases[t1]
        ELSE IF t1 # "" THEN t1 ELSE "other"

\* classify_ioc without the strip() of its first line.
classify_ioc_unstripped(a) ==
    LET s == OrEmpty(a)
    IN  IF IP_RE(s) THEN Str("ip")
        ELSE IF DOMAIN_RE(s) THEN Str("domain")
        ELSE IF SHA256_RE(s) THEN Str("sha256")
        ELSE IF SHA1_RE(s) THEN Str("sha1")
        ELSE IF MD5_RE(s) THEN Str("md5")
        ELSE None

classify_ioc(a) ==
    LET s == StrStrip(OrEmpty(a), Whitespace)
    IN  IF IP_RE(s) THEN Str("ip")
        ELSE IF DOMAIN_RE(s) THEN Str("domain")
        ELSE IF SHA256_RE(s) THEN Str("sha256")
        ELSE IF SHA1_RE(s) THEN Str("sha1")
        ELSE IF MD5_RE(s) THEN Str("md5")
        ELSE None

HashKinds == {"sha256", "sha1", "md5"}

\* _queries_for_ioc(artifact, ioc_type); a is the text f"{artifact}".
queries_for_ioc(a, ioc_type) ==
    IF ioc_type = "ip" THEN
        [splunk |-> "index=* (dest_ip=\"" \o a \o "\" OR src_ip=\"" \o a \o "\") OR (dest=\"" \o a \o "\" OR src=\"" \o a \o "\")",
         kql    |-> "union isfuzzy=true\n  (SecurityEvent, DeviceNetworkEvents, CommonSecurityLog)\n  | where RemoteIP == \"" \o a \o "\" or DestinationIp == \"" \o a \o "\" or SourceIp == \"" \o a \o "\" ",
         eql    |-> "network where destination.ip == \"" \o a \o "\" or source.ip == \"" \o a \o "\" "]
    ELSE IF ioc_type = "domain" THEN
        [splunk |-> "index=* (query=\"" \o a \o "\" OR dest=\"" \o a \o "\" OR url=\"*" \o a \o "*\")",
         kql    |-> "union isfuzzy=true (DnsEvents, DeviceNetworkEvents)\n  | where Name == \"" \o a \o "\" or Url has \"" \o a \o "\" ",
         eql    |-> "dns where dns.question.name == \"" \o a \o "\" or stringcontains(url.original, \"" \o a \o "\") "]
    ELSE IF ioc_type \in HashKinds THEN
        [splunk |-> "index=* (file_hash=\"" \o a \o "\" OR Hash=\"" \o a \o "\" OR sha256=\"" \o a \o "\" OR sha1=\"" \o a \o "\" OR md5=\"" \o a \o "\")",
         kql    |-> "union isfuzzy=true (DeviceFileEvents, DeviceProcessEvents)\n  | where SHA256 == \"" \o a \o "\" or SHA1 == \"" \o a \o "\" or MD5 == \"" \o a \o "\" ",
         eql    |-> "file where file.hash.sha256 == \"" \o a \o "\" or file.hash.sha1 == \"" \o a \o "\" or file.hash.md5 == \"" \o a \o "\" "]
    ELSE
        [splunk |-> "index=* \"" \o a \o "\"",
         kql    |-> "union isfuzzy=true (*) | where tostring(*) has \"" \o a \o "\" ",
         eql    |-> "any where stringcontains(string(all), \"" \o a \o "\") "]

\* safe = name.strip().strip('"').strip("'")
SafeName(name) == StrStrip(StrStrip(StrStrip(name, Whitespace), {"\""}), {"'"})

\* The three templates around the prepared name.
ProcessTemplates(safe) ==
        [splunk |-> "index=* sourcetype=XmlWinEventLog:Microsoft-Windows-Sysmon/Operational EventCode=1 Image=\"*\\" \o safe \o "\" OR OriginalFileName=\"" \o safe \o "\" OR process_name=\"" \o safe \o "\" ",
         kql    |-> "DeviceProcessEvents\n| where ProcessName =~ \"" \o safe \o "\" or FileName =~ \"" \o safe \o "\" or InitiatingProcessFileName =~ \"" \o safe \o "\" ",
         eql    |-> "process where process.name == \"" \o safe \o "\" or process.pe.original_file_name == \"" \o safe \o "\" "]

queries_for_process(name) == ProcessTemplates(SafeName(name))

queries_for_mitre(tech) ==
    LET t == StrUpper(tech)
    IN  [splunk |-> "index=* (\"" \o t \o "\" OR \"ATT&CK " \o t \o "\")",
         kql    |-> "union isfuzzy=true (*) | where tostring(*) has \"" \o t \o "\" ",
         eql    |-> "any where stringcontains(string(all), \"" \o t \o "\") "]

\* The keyword templates of the repo branch and of the final else branch.
queries_for_keyword(a) ==
    [splunk |-> "index=* \"" \o a \o "\"",
     kql    |-> "union isfuzzy=true (*) | where tostring(*) has \"" \o a \o "\"",
     eql    |-> "any where stringcontains(string(all), \"" \o a \o "\")"]

\* The severity expression with md5 left out of the set of hash kinds.
IocSeverity_without_md5(ioc_kind) ==
    IF ioc_kind \in {"sha256", "sha1"} THEN "high" ELSE "medium"

\* sev = "high" if ioc_kind in {"sha256", "sha1", "md5"} else "medium"
IocSeverity(ioc_kind) == IF ioc_kind \in HashKinds THEN "high" ELSE "medium"

\* The if / elif chain without its final else branch: the repo branch takes
\* whatever is left.
Branch_without_else(a_type, a) ==
    IF a_type = "ioc" THEN "ioc"
    ELSE IF a_type = "process" THEN "process"
    ELSE IF a_type = "mitre" \/ MITRE_RE(OrEmpty(a)) THEN "mitre"
    ELSE "repo"

\* The branch of the if / elif chain that runs, named by the `fam` it assigns.
Branch(a_type, a) ==
    IF a_type = "ioc" THEN "ioc"
    ELSE IF a_type = "process" THEN "process"
    ELSE IF a_type = "mitre" \/ MITRE_RE(OrEmpty(a)) THEN "mitre"
    ELSE IF a_type = "repo" THEN "repo"
    ELSE "other"

QueryResult(a, a_type, fam, queries, rationale, sev) ==
    [artifact |-> a, artifact_type |-> a_type, family |-> fam,
     queries |-> queries, rationale |-> rationale, severity_hint |-> sev]

generate_detection_queries(a, declared) ==
    LET a_type   == normalize_artifact_type(declared)
        fam      == Branch(a_type, a)
        ioc_kind == classify_ioc(a)
    IN  IF fam = "ioc" THEN
            IF ~IsNone(ioc_kind) THEN
                Return(QueryResult(a, a_type, "ioc",
                    queries_for_ioc(Format(a), ioc_kind[2]),
                    "Indicator search by " \o ioc_kind[2] \o "; refine with time range, host scope, and known-good baselines.",
                    IocSeverity(ioc_kind[2])))
            ELSE
                Return(QueryResult(a, a_type, "ioc",
                    queries_for_ioc(Format(a), "domain"),
                    "Free-text IOC; treated as domain-like keyword for broad visibility.",
                    "medium"))
        ELSE IF fam = "process" THEN
            IF IsNone(a) THEN Raise("AttributeError")   \* None has no strip()
            ELSE Return(QueryResult(a, a_type, "process",
                    queries_for_process(a[2]),
                    "Process name triage; include parent/child correlation and command-line examination.",
                    "medium"))
        ELSE IF fam = "mitre" THEN
            IF IsNone(a) THEN Raise("AttributeError")   \* None has no upper()
            ELSE Return(QueryResult(a, a_type, "mitre",
                    queries_for_mitre(a[2]),
                    "Technique pivot; pair with telemetry-specific detections for the sub-technique.",
                    "medium"))
        ELSE IF fam = "repo" THEN
            Return(QueryResult(a, a_type, "repo",
                    queries_for_keyword(Format(a)),
                    "Repository keyword pivot; combine with code/parser analysis to derive concrete behaviors.",
                    "low"))
        ELSE
            Return(QueryResult(a, a_type, "other",
                    queries_for_keyword(Format(a)),
                    "Generic keyword pivot; refine by telemetry source and timeframe.",
                    "low"))

(***************************************************************************)
(* The inputs of the capability_mapper calls                               *)
(***************************************************************************)
MaxPad == 2     \* layers of one padding character put around an artifact
MaxLen == 2     \* length of the artifacts enumerated character by character

RECURSIVE Rep(_, _)
Rep(c, n) == IF n = 0 THEN "" ELSE c \o Rep(c, n - 1)

RECURSIVE Reverse(_)
Reverse(s) == IF s = "" THEN "" ELSE Reverse(SubSeq(s, 2, Len(s))) \o Ch(s, 1)

RECURSIVE StringsOver(_, _)
StringsOver(chars, n) ==
    IF n = 0 THEN {""}
    ELSE LET shorter == StringsOver(chars, n - 1)
         IN  shorter \cup {s \o c : s \in shorter, c \in chars}

PadChars == {" ", "\"", "'"}
Pads == {Rep(c, k) : c \in PadChars, k \in 0..MaxPad} \cup {"\"'", " \"", "\n", "\t "}
\* A core is used bare, wrapped on both sides, prefixed or suffixed.
Wraps == {<<p, Reverse(p)>> : p \in Pads} \cup {<<p, "">> : p \in Pads}
             \cup {<<"", p>> : p \in Pads}

HashLens == {SHA256_LEN, SHA1_LEN, MD5_LEN}
HexCores ==
    {Rep(c, n + d) : c \in {"a", "F", "7"}, n \in HashLens, d \in {-1, 0, 1}}
        \cup {Rep("b", n - 1) \o "g" : n \in HashLens}
        \cup {Rep("0", n - 1) \o "." : n \in HashLens}
IpCores ==
    {"8.8.8.8", "10.10.10.10", "255.255.255.255", "249.199.99.0", "00.01.1.1",
     "256.1.1.1", "1.1.1", "1.1.1.1.1", "1.1..1", "1.1.1.a", "300.1.1.1", "1.1.1.1000"}
DomainCores ==
    {"evil.example.com", "a.bc", "a.b", "-a.bc", "a-.bc", "a.-b.cd", "a.b1", "x_y.com",
     "abcdefabcdefabcdefabcdefabcdefab.ab"}
MitreCores ==
    {"T1059", "t1059", "T1059.001", "t1059.001", "T105", "T10599", "T1059.01",
     "T1059.0011", "X1059", "T1059-001", "T10a9"}
OtherCores == {"mimikatz.exe", "SharpHound", "cmd", "not-an-ioc", "None"}
Cores == HexCores \cup IpCores \cup DomainCores \cup MitreCores \cup OtherCores

Artifacts ==
    {Str(w[1] \o c \o w[2]) : w \in Wraps, c \in Cores}
        \cup {Str(s) : s \in StringsOver({"t", "1", "\"", "'", " ", "."}, MaxLen)}
        \cup {None}

DeclaredTypes ==
    {Str(t) : t \in DOMAIN aliases}
        \cup {Str("other"), Str("git"), Str(""), Str("  "), Str(" IOC\n"), Str("Proc"),
              Str("GitHub "), Str("Technique"), Str("i o c"), None}

(***************************************************************************)
(* Idle values of the components a specification does not exercise         *)
(***************************************************************************)
MapperIdle ==
    /\ artifact = None /\ artifact_type = None
    /\ called = "" /\ raised = "" /\ ret = None
SchemaIdle ==
    /\ obj = <<>> /\ s_called = FALSE /\ s_raised = "" /\ s_ret = None
FetchIdle ==
    /\ url = "" /\ env = <<>> /\ tree = <<>> /\ pc = "idle"
    /\ result = <<>> /\ files = <<>> /\ idx = 0 /\ tmpdir = "unset" /\ exc = ""
SearchIdle ==
    /\ data_files = <<>> /\ query = "" /\ max_results = 0
    /\ r_called = FALSE /\ r_ret = <<>>

(***************************************************************************)
(* Spec: a caller applies one function of capability_mapper to any inputs  *)
(***************************************************************************)
Init ==
    /\ artifact \in Artifacts
    /\ artifact_type \in DeclaredTypes
    /\ called = "" /\ raised = "" /\ ret = None
    /\ SchemaIdle /\ FetchIdle /\ SearchIdle

CallNormalize ==
    /\ called = ""
    /\ called' = "normalize_artifact_type"
    /\ raised' = ""
    /\ ret' = Str(normalize_artifact_type(artifact_type))
    /\ UNCHANGED <<artifact, artifact_type, schemaVars, fetchVars, searchVars>>

CallClassify ==
    /\ called = ""
    /\ called' = "classify_ioc"
    /\ raised' = ""
    /\ ret' = classify_ioc(artifact)
    /\ UNCHANGED <<artifact, artifact_type, schemaVars, fetchVars, searchVars>>

CallGenerate ==
    /\ called = ""
    /\ LET outcome == generate_detection_queries(artifact, artifact_type)
       IN  /\ called' = "generate_detection_queries"
           /\ raised' = outcome.raised
           /\ ret' = outcome.value
    /\ UNCHANGED <<artifact, artifact_type, schemaVars, fetchVars, searchVars>>

Next == CallNormalize \/ CallClassify \/ CallGenerate

Spec == Init /\ [][Next]_vars

Generated == called = "generate_detection_queries" /\ raised = ""

\* generate_detection_queries was applied to two str arguments and returned.
GeneratedForStrings == Generated /\ ~IsNone(artifact) /\ ~IsNone(artifact_type)

Platforms == {"splunk", "kql", "eql"}
Families  == {"ioc", "process", "mitre", "repo", "other"}
ResultFields ==
    {"artifact", "artifact_type", "family", "queries", "rationale", "severity_hint"}

\* The artifact has something a family's template preparation may remove.
Padded(a) == ~IsNone(a) /\ StrStrip(a[2], Whitespace \cup {"\"", "'"}) # a[2]

(***************************************************************************)
(* C1.  Each of the three query strings generate_detection_queries returns *)
(* contains the artifact exactly as the caller passed it, as a contiguous  *)
(* substring, in every family.                                             *)
(***************************************************************************)
C1_ArtifactVerbatimInEveryQuery ==
    GeneratedForStrings =>
        \A p \in Platforms : Contains(ret.queries[p], artifact[2])

(***************************************************************************)
(* C2.  The family of the returned record is one of the five families and  *)
(* equals the record's artifact_type, unless the MITRE-ID override applied *)
(* (the artifact has the technique-ID shape), and then it is mitre.        *)
(***************************************************************************)
C2_FamilyIsResolvedLabel ==
    GeneratedForStrings =>
        /\ ret.family \in Families
        /\ \/ ret.family = ret.artifact_type
           \/ ret.family = "mitre" /\ MITRE_RE(artifact[2])

(***************************************************************************)
(* C3.  The family is mitre exactly when the normalized label is mitre, or *)
(* the raw artifact has the technique-ID shape and the label is none of    *)
(* ioc, process, repo; a technique-ID-shaped artifact declared repo gets   *)
(* family repo with severity low, declared ioc family ioc, declared        *)
(* process family process.                                                 *)
(***************************************************************************)
C3_OverrideSparesIocProcessRepo ==
    GeneratedForStrings =>
        /\ ret.family = "mitre" <=>
              \/ ret.artifact_type = "mitre"
              \/ /\ MITRE_RE(artifact[2])
                 /\ ret.artifact_type \notin {"ioc", "process", "repo"}
        /\ MITRE_RE(artifact[2]) =>
              /\ ret.artifact_type = "repo" =>
                    ret.family = "repo" /\ ret.severity_hint = "low"
              /\ ret.artifact_type = "ioc" => ret.family = "ioc"
              /\ ret.artifact_type = "process" => ret.family = "process"

(***************************************************************************)
(* C4.  normalize_artifact_type returns one of the five canonical labels:  *)
(* the alias table's value for a label that, trimmed and lower-cased, is   *)
(* in the table, and other for every other label, the empty string and     *)
(* None included.                                                          *)
(***************************************************************************)
C4_NormalizeIsCanonical ==
    called = "normalize_artifact_type" =>
        LET t == StrLower(StrStrip(OrEmpty(artifact_type), Whitespace))
        IN  /\ raised = ""
            /\ ret[2] \in Families
            /\ t \in DOMAIN aliases => ret[2] = aliases[t]
            /\ t \notin DOMAIN aliases => ret[2] = "other"

(***************************************************************************)
(* C5.  classify_ioc trims the artifact and returns the tag of the first   *)
(* pattern, in the order ip, domain, sha256, sha1, md5, that matches the   *)
(* whole trimmed string: ip for every dotted quad of four decimal numbers  *)
(* 0..255, sha256 / sha1 / md5 for every string of exactly 64 / 40 / 32    *)
(* hexadecimal characters of either case, and None for every string that   *)
(* matches no pattern, the empty and the whitespace-only string included.  *)
(***************************************************************************)
DigitStr(d) == Ch("0123456789", d + 1)

RECURSIVE Numeral(_)
Numeral(n) == IF n < 10 THEN DigitStr(n) ELSE Numeral(n \div 10) \o DigitStr(n % 10)

OctetNumerals == {Numeral(n) : n \in 0..255}

DottedQuad(s) ==
    LET parts == Split(s, ".")
    IN  Len(parts) = 4 /\ \A i \in 1..4 : parts[i] \in OctetNumerals

HexString(s, n) ==
    /\ Len(s) = n
    /\ \A i \in 1..n : \E k \in 1..22 : Ch(s, i) = Ch("0123456789abcdefABCDEF", k)

C5_ClassifyFirstMatchOfTrimmed ==
    called = "classify_ioc" =>
        LET s      == StrStrip(OrEmpty(artifact), Whitespace)
            ip     == IP_RE(s)
            domain == DOMAIN_RE(s)
            sha256 == SHA256_RE(s)
            sha1   == SHA1_RE(s)
            md5    == MD5_RE(s)
        IN  /\ raised = ""
            /\ ret = Str("ip") <=> ip
            /\ ret = Str("domain") <=> ~ip /\ domain
            /\ ret = Str("sha256") <=> ~ip /\ ~domain /\ sha256
            /\ ret = Str("sha1") <=> ~ip /\ ~domain /\ ~sha256 /\ sha1
            /\ ret = Str("md5") <=> ~ip /\ ~domain /\ ~sha256 /\ ~sha1 /\ md5
            /\ ret = None <=> ~ip /\ ~domain /\ ~sha256 /\ ~sha1 /\ ~md5
            /\ DottedQuad(s) => ret = Str("ip")
            /\ HexString(s, 64) => ret = Str("sha256")
            /\ HexString(s, 40) => ret = Str("sha1")
            /\ HexString(s, 32) => ret = Str("md5")
            /\ s = "" => ret = None

\* A 40-character hexadecimal string inside whitespace was classified sha1.
C5_Witness ==
    /\ called = "classify_ioc"
    /\ ~IsNone(artifact)
    /\ StrStrip(artifact[2], Whitespace) # artifact[2]
    /\ HexString(StrStrip(artifact[2], Whitespace), 40)
    /\ ret = Str("sha1")

(***************************************************************************)
(* C6.  severity_hint is decided by family and category: in family ioc it  *)
(* is high exactly when classify_ioc returns sha256, sha1 or md5 and       *)
(* medium otherwise (ip, domain, unclassified); medium for process and     *)
(* mitre; low for repo and other; never anything but low, medium, high.    *)
(***************************************************************************)
C6_SeverityByFamilyAndCategory ==
    Generated =>
        LET kind == classify_ioc(artifact)
        IN  /\ ret.severity_hint \in {"low", "medium", "high"}
            /\ ret.family = "ioc" =>
                  /\ ret.severity_hint = "high" <=>
                        kind \in {Str("sha256"), Str("sha1"), Str("md5")}
                  /\ ret.severity_hint = "medium" <=>
                        kind \in {Str("ip"), Str("domain"), None}
            /\ ret.family \in {"process", "mitre"} => ret.severity_hint = "medium"
            /\ ret.family \in {"repo", "other"} => ret.severity_hint = "low"

\* Every severity was produced in family ioc: this one is an md5 rated high.
C6_Witness ==
    /\ Generated
    /\ ret.family = "ioc"
    /\ classify_ioc(artifact) = Str("md5")
    /\ ret.severity_hint = "high"

(***************************************************************************)
(* C7.  For any two str arguments generate_detection_queries raises        *)
(* nothing and returns a record with exactly the fields artifact,          *)
(* artifact_type, family, queries, rationale, severity_hint, whose queries *)
(* has exactly the keys splunk, kql, eql; an input that fits no specific   *)
(* family (its label is none of ioc, process, mitre, repo and the artifact *)
(* has no technique-ID shape) gets the keyword-search family other.        *)
(***************************************************************************)
C7_TotalOnStrings ==
    (called = "generate_detection_queries" /\ ~IsNone(artifact) /\ ~IsNone(artifact_type)) =>
        /\ raised = ""
        /\ DOMAIN ret = ResultFields
        /\ DOMAIN ret.queries = Platforms
        /\ ret.artifact = artifact
        /\ (ret.artifact_type \notin {"ioc", "process", "mitre", "repo"}
                /\ ~MITRE_RE(artifact[2])) =>
              /\ ret.family = "other"
              /\ ret.queries = queries_for_keyword(artifact[2])

\* A quote-ridden artifact under a label no table knows ended in family other.
C7_Witness ==
    /\ GeneratedForStrings
    /\ Padded(artifact)
    /\ ret.artifact_type \notin Families
    /\ ret.family = "other"

(***************************************************************************)
(* schema.py                                                               *)
(*                                                                         *)
(* A playbook object is a dict: a function from its keys to its values.    *)
(* The value under nist_phase_playbook is the set of phases it holds (each *)
(* phase an empty list); every other value is the token "v".               *)
(***************************************************************************)
RequiredKeys == {"artifact", "artifact_type", "nist_phase_playbook"}
OptionalKeys == {"soar_playbook_template", "references"}
Phases ==
    {"detection", "analysis", "containment", "eradication", "recovery", "post_incident"}

\* validate(instance=obj, schema=_schema) accepts obj.
SchemaAccepts(o) ==
    /\ RequiredKeys \subseteq DOMAIN o
    /\ DOMAIN o \subseteq RequiredKeys \cup OptionalKeys
    /\ o["nist_phase_playbook"] = Phases

\* The body is the validate() call alone: a call that does not raise falls
\* off the end of the function, which returns None.
ensure_schema(o) ==
    IF SchemaAccepts(o) THEN Return(None) ELSE Raise("ValidationError")

Dict(keys, phases) ==
    [k \in keys |-> IF k = "nist_phase_playbook" THEN phases ELSE "v"]

PlaybookObjects ==
    {Dict(keys, phases) :
        keys \in SUBSET (RequiredKeys \cup OptionalKeys \cup {"extra_field"}),
        phases \in {Phases, {}, Phases \ {"recovery"}, Phases \cup {"triage"}}}

InitSchema ==
    /\ obj \in PlaybookObjects
    /\ s_called = FALSE /\ s_raised = "" /\ s_ret = None
    /\ MapperIdle /\ FetchIdle /\ SearchIdle

EnsureSchema ==
    /\ ~s_called
    /\ LET outcome == ensure_schema(obj)
       IN  /\ s_called' = TRUE
           /\ s_raised' = outcome.raised
           /\ s_ret' = outcome.value
    /\ UNCHANGED <<obj, mapperVars, fetchVars, searchVars>>

NextSchema == EnsureSchema

SpecSchema == InitSchema /\ [][NextSchema]_vars

(***************************************************************************)
(* C8.  For every object valid against the playbook schema ensure_schema   *)
(* returns that object, equal to the input and unmodified; for an invalid  *)
(* object it raises a validation exception instead of returning.           *)
(***************************************************************************)
C8_EnsureSchemaReturnsItsInput ==
    s_called =>
        IF SchemaAccepts(obj)
        THEN s_raised = "" /\ s_ret = <<"dict", obj>>
        ELSE s_raised = "ValidationError"

(***************************************************************************)
(* repo_fetcher.py                                                         *)
(*                                                                         *)
(* A file under the repository root is a record: its path relative to the  *)
(* root, its size in bytes, the 1-based offset of its first NUL byte (0    *)
(* when it has none), whether stat() and open() succeed on it, and its     *)
(* text.  `tree` lists the files in the order os.walk yields them.         *)
(***************************************************************************)
SIZE_LIMIT == 1000000
CHUNK == 8192
SAMPLE_LINES == 20
README_LINES == 100

MaxFiles == 2   \* number of files under the repository root

Min(a, b) == IF a < b THEN a ELSE b

StartsWith(s, prefix) ==
    Len(s) >= Len(prefix) /\ SubSeq(s, 1, Len(prefix)) = prefix

\* The text after the last "/" of a relative path.
BaseName(path) ==
    LET parts == Split(path, "/") IN parts[Len(parts)]

\* mimetypes.guess_type(filepath)[0] for the suffixes the model uses.
GuessType(path) ==
    LET parts == Split(BaseName(path), ".")
        ext   == IF Len(parts) < 2 THEN "" ELSE StrLower(parts[Len(parts)])
    IN  CASE ext = "png" -> Str("image/png")
          [] ext = "mp3" -> Str("audio/mpeg")
          [] ext = "mp4" -> Str("video/mp4")
          [] ext = "pdf" -> Str("application/pdf")
          [] ext = "zip" -> Str("application/zip")
          [] ext = "py"  -> Str("text/x-python")
          [] ext = "md"  -> Str("text/markdown")
          [] ext = "txt" -> Str("text/plain")
          [] OTHER       -> None

is_binary_file(f) ==
    IF ~f.open_ok THEN TRUE                       \* except Exception: return True
    ELSE IF f.nul_at \in 1..Min(f.size, CHUNK) THEN TRUE
    ELSE LET mime_type == GuessType(f.path)
         IN  /\ ~IsNone(mime_type)
             /\ mime_type[2] # ""
             /\ \/ StartsWith(mime_type[2], "image")
                \/ StartsWith(mime_type[2], "audio")
                \/ StartsWith(mime_type[2], "video")
                \/ mime_type[2] \in {"application/pdf", "application/zip"}

\* The lines a text file object iterates over, each without its line feed.
TextLines(text) ==
    LET parts == Split(text, "\n")
    IN  IF parts[Len(parts)] = "" THEN SubSeq(parts, 1, Len(parts) - 1) ELSE parts

RECURSIVE Join(_, _)
Join(lines, sep) ==
    IF Len(lines) = 0 THEN ""
    ELSE IF Len(lines) = 1 THEN lines[1]
    ELSE lines[1] \o sep \o Join(Tail(lines), sep)

safe_read_text(f, max_lines) ==
    IF ~f.open_ok THEN ""
    ELSE LET lines == TextLines(f.text)
         IN  Join(SubSeq(lines, 1, Min(Len(lines), max_lines)), "\n")

ReadmeCandidates ==
    <<"README.md", "README.rst", "README.txt", "README",
      "readme.md", "readme.rst", "readme.txt", "readme">>

\* path.exists() and path.is_file() for the file named c directly under root.
RootFile(t, c) == {i \in 1..Len(t) : t[i].path = c /\ t[i].stat_ok}

\* find_readme(root): the text of the README, or None.
find_readme(t) ==
    IF \E k \in 1..Len(ReadmeCandidates) : RootFile(t, ReadmeCandidates[k]) # {}
    THEN LET k == CHOOSE k \in 1..Len(ReadmeCandidates) :
                      /\ RootFile(t, ReadmeCandidates[k]) # {}
                      /\ \A j \in 1..(k - 1) : RootFile(t, ReadmeCandidates[j]) = {}
             i == CHOOSE i \in RootFile(t, ReadmeCandidates[k]) : TRUE
         IN  Str(safe_read_text(t[i], README_LINES))
    ELSE LET globbed == {i \in 1..Len(t) :
                            /\ BaseName(t[i].path) = t[i].path
                            /\ t[i].stat_ok
                            /\ Contains(StrLower(t[i].path), "readme")}
         IN  IF globbed = {} THEN None
             ELSE Str(safe_read_text(t[CHOOSE i \in globbed : \A j \in globbed : i <= j],
                                     README_LINES))

\* CollectOne with the size test written >= in place of >.
CollectOne_limit_exclusive(fs, f) ==
    IF ~f.stat_ok THEN fs
    ELSE IF f.size >= SIZE_LIMIT THEN fs
    ELSE IF is_binary_file(f) THEN fs
    ELSE Append(fs, [path |-> f.path, sample |-> safe_read_text(f, SAMPLE_LINES)])

\* One pass of the inner loop of collect_files_and_samples: `fs` after the
\* file f has been handled.
CollectOne(fs, f) ==
    IF ~f.stat_ok THEN fs                         \* stat() raises: except, continue
    ELSE IF f.size > SIZE_LIMIT THEN fs
    ELSE IF is_binary_file(f) THEN fs
    ELSE Append(fs, [path |-> f.path, sample |-> safe_read_text(f, SAMPLE_LINES)])

is_github(u) == StartsWith(u, "http://github.com/") \/ StartsWith(u, "https://github.com/")

(***************************************************************************)
(* The repositories and environments fetch_repo_snapshot is run against    *)
(***************************************************************************)
Urls == {"https://github.com/o/r", "http://github.com/o/r", "/srv/repo"}

FileNames == {"README.md", "src/tool.py", "logo.png"}

FileKinds ==
    {[size |-> 10, nul_at |-> 0, stat_ok |-> TRUE, open_ok |-> TRUE, text |-> "echo 'hi'\n"],
     [size |-> 44, nul_at |-> 0, stat_ok |-> TRUE, open_ok |-> TRUE, text |-> Rep("l\n", 22)],
     [size |-> SIZE_LIMIT, nul_at |-> 0, stat_ok |-> TRUE, open_ok |-> TRUE, text |-> "big"],
     [size |-> SIZE_LIMIT + 1, nul_at |-> 0, stat_ok |-> TRUE, open_ok |-> TRUE, text |-> "big"],
     [size |-> CHUNK + 1, nul_at |-> CHUNK, stat_ok |-> TRUE, open_ok |-> TRUE, text |-> "a"],
     [size |-> CHUNK + 1, nul_at |-> CHUNK + 1, stat_ok |-> TRUE, open_ok |-> TRUE, text |-> "a"],
     [size |-> 10, nul_at |-> 0, stat_ok |-> FALSE, open_ok |-> FALSE, text |-> ""],
     [size |-> 10, nul_at |-> 0, stat_ok |-> TRUE, open_ok |-> FALSE, text |-> ""]}

Files == {[path |-> n] @@ k : n \in FileNames, k \in FileKinds}

Paths(t) == {t[i].path : i \in 1..Len(t)}

RECURSIVE TreesUpTo(_)
TreesUpTo(n) ==
    IF n = 0 THEN {<<>>}
    ELSE LET shorter == TreesUpTo(n - 1)
         IN  shorter \cup
                 UNION {{Append(t, f) : f \in {g \in Files : g.path \notin Paths(t)}} :
                           t \in shorter}

\* The repository can be reached: the clone succeeds or the local path exists.
Reachable(u, e) ==
    IF is_github(u) THEN e.git_installed /\ e.clone_ok ELSE e.path_exists

Environments(u) ==
    {e \in [git_installed : BOOLEAN, clone_ok : BOOLEAN, path_exists : BOOLEAN,
            fail_at : {"none", "readme", "scan"}] :
        /\ is_github(u) => ~e.path_exists       \* a URL is no local path
        /\ ~is_github(u) => ~e.clone_ok         \* nothing is cloned for a local path
        /\ ~Reachable(u, e) => e.fail_at = "none"}

(***************************************************************************)
(* SpecFetch: one call of fetch_repo_snapshot, step by step                *)
(***************************************************************************)
InitFetch ==
    /\ url \in Urls
    /\ env \in Environments(url)
    /\ tree \in (IF Reachable(url, env) THEN TreesUpTo(MaxFiles) ELSE {<<>>})
    /\ pc = "start"
    /\ result = <<>> /\ files = <<>> /\ idx = 0 /\ tmpdir = "unset" /\ exc = ""
    /\ MapperIdle /\ SchemaIdle /\ SearchIdle

\* result = {"url": url, "readme": None, "files": []}; tmpdir = None
Begin ==
    /\ pc = "start"
    /\ result' = ("url" :> Str(url)) @@ ("readme" :> None) @@ ("files" :> <<>>)
    /\ tmpdir' = "none"
    /\ pc' = "try"
    /\ UNCHANGED <<url, env, tree, files, idx, exc, mapperVars, schemaVars, searchVars>>

\* The if / else that finds repo_root.
Acquire ==
    /\ pc = "try"
    /\ IF is_github(url)
       THEN IF ~env.git_installed
            THEN exc' = "GitPython is not installed." /\ tmpdir' = tmpdir /\ pc' = "except"
            ELSE /\ tmpdir' = "created"
                 /\ IF env.clone_ok
                    THEN exc' = exc /\ pc' = "readme"
                    ELSE exc' = "git clone failed" /\ pc' = "except"
       ELSE /\ tmpdir' = tmpdir
            /\ IF env.path_exists
               THEN exc' = exc /\ pc' = "readme"
               ELSE exc' = "Local directory not found: " \o url /\ pc' = "except"
    /\ UNCHANGED <<url, env, tree, result, files, idx, mapperVars, schemaVars, searchVars>>

\* readme = find_readme(repo_root); result["readme"] = readme or ""
ReadReadme ==
    /\ pc = "readme"
    /\ IF env.fail_at = "readme"
       THEN exc' = "Permission denied" /\ result' = result /\ pc' = "except"
       ELSE LET readme == find_readme(tree)
            IN  /\ result' = [result EXCEPT !["readme"] =
                                  IF IsNone(readme) THEN Str("") ELSE readme]
                /\ exc' = exc
                /\ pc' = "scan"
    /\ files' = <<>> /\ idx' = 0
    /\ UNCHANGED <<url, env, tree, tmpdir, mapperVars, schemaVars, searchVars>>

\* collect_files_and_samples handles the next file os.walk yields.
ScanFile ==
    /\ pc = "scan"
    /\ idx < Len(tree)
    /\ files' = CollectOne(files, tree[idx + 1])
    /\ idx' = idx + 1
    /\ UNCHANGED <<url, env, tree, pc, result, tmpdir, exc, mapperVars, schemaVars, searchVars>>

\* An exception leaves collect_files_and_samples: one raised outside the
\* per-file try block.
ScanRaises ==
    /\ pc = "scan"
    /\ env.fail_at = "scan"
    /\ exc' = "scan failed"
    /\ pc' = "except"
    /\ UNCHANGED <<url, env, tree, result, files, idx, tmpdir, mapperVars, schemaVars, searchVars>>

\* result["files"] = the list collect_files_and_samples returns.
ScanDone ==
    /\ pc = "scan"
    /\ idx = Len(tree)
    /\ result' = [result EXCEPT !["files"] = files]
    /\ pc' = "finally"
    /\ UNCHANGED <<url, env, tree, files, idx, tmpdir, exc, mapperVars, schemaVars, searchVars>>

\* except Exception as e: result["error"] = str(e)
Except ==
    /\ pc = "except"
    /\ result' = result @@ ("error" :> Str(exc))
    /\ pc' = "finally"
    /\ UNCHANGED <<url, env, tree, files, idx, tmpdir, exc, mapperVars, schemaVars, searchVars>>

\* finally: remove the temporary directory; return result
Finally ==
    /\ pc = "finally"
    /\ tmpdir' = IF tmpdir = "created" THEN "removed" ELSE tmpdir
    /\ pc' = "done"
    /\ UNCHANGED <<url, env, tree, result, files, idx, exc, mapperVars, schemaVars, searchVars>>

NextFetch ==
    Begin \/ Acquire \/ ReadReadme \/ ScanFile \/ ScanRaises \/ ScanDone \/ Except \/ Finally

SpecFetch == InitFetch /\ [][NextFetch]_vars

Returned == pc = "done"
Failed   == exc # ""

(***************************************************************************)
(* C9.  fetch_repo_snapshot raises nothing.  When a step fails (the local  *)
(* path does not exist, GitPython is missing, the clone raises, scanning   *)
(* raises) the record it returns has the input as url, the empty string as *)
(* readme, the empty list as files, and an error field; when fetching      *)
(* succeeds the record has no error field and readme is a string.          *)
(***************************************************************************)
C9_FailureRecordShape ==
    Returned =>
        /\ result["url"] = Str(url)
        /\ IF Failed
           THEN /\ "error" \in DOMAIN result
                /\ result["readme"] = Str("")
                /\ result["files"] = <<>>
           ELSE /\ "error" \notin DOMAIN result
                /\ ~IsNone(result["readme"])

(***************************************************************************)
(* C10.  Every entry of the files list comes from a file of at most        *)
(* 1,000,000 bytes that is_binary_file does not report as binary, and      *)
(* every file under the root that can be stat-ed, has at most 1,000,000    *)
(* bytes and is not reported as binary appears exactly once, under its     *)
(* path relative to the root; a larger, binary or unreadable file is       *)
(* skipped and the files after it are still scanned.  Stated of the list   *)
(* while it is built (the files handled so far) and of the list returned.  *)
(***************************************************************************)
Eligible(f) == f.stat_ok /\ f.size <= 1000000 /\ ~is_binary_file(f)

ListedOnce(fs, t, n) ==
    /\ \A j \in 1..Len(fs) :
          \E i \in 1..n : t[i].path = fs[j].path /\ Eligible(t[i])
    /\ \A i \in 1..n :
          Cardinality({j \in 1..Len(fs) : fs[j].path = t[i].path})
              = IF Eligible(t[i]) THEN 1 ELSE 0

C10_FilesAreTheEligibleFiles ==
    /\ pc = "scan" => ListedOnce(files, tree, idx)
    /\ (Returned /\ ~Failed) => ListedOnce(result["files"], tree, Len(tree))

\* A file over the limit was skipped and the file of exactly 1,000,000
\* bytes walked after it was listed.
C10_Witness ==
    /\ Returned /\ ~Failed
    /\ Len(tree) = 2
    /\ tree[1].stat_ok /\ tree[1].size > 1000000
    /\ tree[2].size = 1000000 /\ Eligible(tree[2])
    /\ Len(result["files"]) = 1
    /\ result["files"][1].path = tree[2].path

(***************************************************************************)
(* retriever.py                                                            *)
(*                                                                         *)
(* A file of DATA_DIRS is a record: its name, the directory it lies in,    *)
(* whether json.load succeeds on it, and the JSON value it holds.  A JSON  *)
(* value is <<"str", s>> (a string) or <<"dict", s>> (the object           *)
(* {"artifact": s}).                                                       *)
(***************************************************************************)
MaxDocs    == 3     \* number of *.json files in DATA_DIRS
MaxResults == 3     \* largest max_results a caller passes

\* json.dumps of a str: quotes around it, the escapes of ensure_ascii output.
JsonEscape(c) ==
    CASE c = "\"" -> "\\\""
      [] c = "\\" -> "\\\\"
      [] c = "\n" -> "\\n"
      [] c = "\t" -> "\\t"
      [] c = "\r" -> "\\r"
      [] c = "\f" -> "\\f"
      [] OTHER    -> c

RECURSIVE JsonEscaped(_)
JsonEscaped(s) ==
    IF s = "" THEN "" ELSE JsonEscape(Ch(s, 1)) \o JsonEscaped(SubSeq(s, 2, Len(s)))

JsonDumps(v) ==
    IF v[1] = "str" THEN "\"" \o JsonEscaped(v[2]) \o "\""
    ELSE "{\"artifact\": \"" \o JsonEscaped(v[2]) \o "\"}"

\* load_corpus(): a file json.load fails on is reported and left out.
RECURSIVE load_corpus(_)
load_corpus(fs) ==
    IF Len(fs) = 0 THEN <<>>
    ELSE (IF fs[1].loads
          THEN <<[id |-> fs[1].id, source |-> fs[1].source, content |-> fs[1].content]>>
          ELSE <<>>) \o load_corpus(Tail(fs))

\* len(re.findall(re.escape(q), text)): the matches are found left to right,
\* each search resuming after the last match; the empty pattern matches at
\* every position, the end of the text included.
RECURSIVE CountFrom(_, _, _)
CountFrom(q, text, i) ==
    IF i + Len(q) - 1 > Len(text) THEN 0
    ELSE IF SubSeq(text, i, i + Len(q) - 1) = q
         THEN 1 + CountFrom(q, text, i + Len(q))
         ELSE CountFrom(q, text, i + 1)

FindAllCount(q, text) ==
    IF q = "" THEN Len(text) + 1 ELSE CountFrom(q, text, 1)

\* text = json.dumps(doc["content"]).lower(); q = query.lower(); score
Score(doc, qry) == FindAllCount(StrLower(qry), StrLower(JsonDumps(doc.content)))

RECURSIVE Scored(_, _)
Scored(docs, qry) ==
    IF Len(docs) = 0 THEN <<>>
    ELSE (IF Score(docs[1], qry) > 0
          THEN <<[id |-> docs[1].id, source |-> docs[1].source,
                  match_score |-> Score(docs[1], qry), content |-> docs[1].content]>>
          ELSE <<>>) \o Scored(Tail(docs), qry)

\* Insertion that keeps entries of equal score in their order of arrival.
InsertDesc(sorted, e) ==
    LET k == Cardinality({i \in 1..Len(sorted) : sorted[i].match_score >= e.match_score})
    IN  SubSeq(sorted, 1, k) \o <<e>> \o SubSeq(sorted, k + 1, Len(sorted))

RECURSIVE SortInto(_, _)
SortInto(sorted, rest) ==
    IF Len(rest) = 0 THEN sorted
    ELSE SortInto(InsertDesc(sorted, rest[1]), Tail(rest))

\* The sort without reverse=True.
SortByScore_ascending(scored) ==
    LET RECURSIVE Rev(_)
        Rev(q) == IF Len(q) = 0 THEN <<>> ELSE Rev(Tail(q)) \o <<q[1]>>
    IN  Rev(SortInto(<<>>, Rev(scored)))

\* sorted(scored, key=lambda x: x["match_score"], reverse=True): stable.
SortByScore(scored) == SortInto(<<>>, scored)

\* seq[:n]
Slice(seq, n) ==
    IF n >= 0 THEN SubSeq(seq, 1, Min(n, Len(seq)))
    ELSE SubSeq(seq, 1, Len(seq) + n)

search(fs, qry, n) == Slice(SortByScore(Scored(load_corpus(fs), qry)), n)

(***************************************************************************)
(* SpecSearch: a caller applies search to any corpus, query and limit      *)
(***************************************************************************)
Contents ==
    {Str("Mimikatz"), Str("mimikatz mimikatz"), <<"dict", "mimikatz">>, Str("aaaa"),
     Str("say \"aa\"\n"), Str("")}

Queries == {"mimikatz", "Mimi", "aa", "A", "", "\"", "\\", "n", "notfound"}

FileAt(k) ==
    {[id |-> "d" \o DigitStr(k) \o ".json",
      source |-> IF k = 1 THEN "data/golden_set" ELSE "data/corpus",
      loads |-> TRUE, content |-> c] : c \in Contents}
        \cup {[id |-> "d" \o DigitStr(k) \o ".json",
               source |-> IF k = 1 THEN "data/golden_set" ELSE "data/corpus",
               loads |-> FALSE, content |-> Str("")]}

RECURSIVE CorporaUpTo(_)
CorporaUpTo(n) ==
    IF n = 0 THEN {<<>>}
    ELSE LET shorter == CorporaUpTo(n - 1)
         IN  shorter \cup
                 UNION {{Append(fs, f) : f \in FileAt(n)} : fs \in {g \in shorter : Len(g) = n - 1}}

InitSearch ==
    /\ data_files \in CorporaUpTo(MaxDocs)
    /\ query \in Queries
    /\ max_results \in -1..MaxResults
    /\ r_called = FALSE /\ r_ret = <<>>
    /\ MapperIdle /\ SchemaIdle /\ FetchIdle

Search ==
    /\ ~r_called
    /\ r_called' = TRUE
    /\ r_ret' = search(data_files, query, max_results)
    /\ UNCHANGED <<data_files, query, max_results, mapperVars, schemaVars, fetchVars>>

NextSearch == Search

SpecSearch == InitSearch /\ [][NextSearch]_vars

\* The number of non-overlapping occurrences of q in text: the size of a
\* largest set of places where q occurs no two of which overlap (the empty
\* string occurs at every place, the end included, and never overlaps).
Places(q, text) ==
    {i \in 1..(Len(text) - Len(q) + 1) : SubSeq(text, i, i + Len(q) - 1) = q}

Occurrences(q, text) ==
    IF q = "" THEN Len(text) + 1
    ELSE LET disjoint == {S \in SUBSET Places(q, text) :
                              \A i, j \in S : i < j => j - i >= Len(q)}
         IN  CHOOSE n \in 0..Len(text) :
                 /\ \E S \in disjoint : Cardinality(S) = n
                 /\ \A S \in disjoint : Cardinality(S) <= n

\* The corpus documents: the files json.load succeeds on.
IsCorpusDoc(e) ==
    \E k \in 1..Len(data_files) :
        /\ data_files[k].loads
        /\ data_files[k].id = e.id
        /\ data_files[k].source = e.source
        /\ data_files[k].content = e.content

LeftOut == {k \in 1..Len(data_files) :
               /\ data_files[k].loads
               /\ \A j \in 1..Len(r_ret) :
                      <<r_ret[j].source, r_ret[j].id>>
                          # <<data_files[k].source, data_files[k].id>>}

\* What the claim says of the result; the text the query is looked for in is
\* the serialized content, lower-cased or as json.dumps gives it.
SearchContract(lowered) ==
    LET q == StrLower(query)
        Text(v) == IF lowered THEN StrLower(JsonDumps(v)) ELSE JsonDumps(v)
    IN  /\ Len(r_ret) <= max_results
        /\ \A j \in 1..Len(r_ret) :
              /\ IsCorpusDoc(r_ret[j])
              /\ Contains(Text(r_ret[j].content), q)
              /\ r_ret[j].match_score >= 1
              /\ r_ret[j].match_score = Occurrences(q, Text(r_ret[j].content))
        /\ \A j \in 1..(Len(r_ret) - 1) : r_ret[j].match_score >= r_ret[j + 1].match_score
        /\ \A k \in LeftOut : \A j \in 1..Len(r_ret) :
              Occurrences(q, Text(data_files[k].content)) <= r_ret[j].match_score
        /\ (\A k \in 1..Len(data_files) :
                data_files[k].loads => ~Contains(Text(data_files[k].content), q))
              => r_ret = <<>>

(***************************************************************************)
(* C11.  For any query and any max_results >= 0, search returns at most    *)
(* max_results entries, each a corpus document whose serialized content    *)
(* contains the lower-cased query at least once (match_score >= 1, the     *)
(* number of non-overlapping occurrences), ordered by non-increasing       *)
(* match_score; no document with a higher score than a returned one is     *)
(* left out, and when no document contains the query the result is empty.  *)
(* C11_SearchContractAsWritten looks for the query in the serialized       *)
(* content as json.dumps gives it; C11_SearchContractLowered in the        *)
(* serialized content lower-cased, as the query is.                        *)
(***************************************************************************)
C11_SearchContractAsWritten ==
    (r_called /\ max_results >= 0) => SearchContract(FALSE)

C11_SearchContractLowered ==
    (r_called /\ max_results >= 0) => SearchContract(TRUE)

\* Three documents match a query whose case differs from theirs; the limit
\* of two leaves the lowest score out and the sort moved the highest first.
C11_Witness ==
    /\ r_called
    /\ query = "Mimi"
    /\ max_results = 2
    /\ Len(data_files) = 3
    /\ Len(r_ret) = 2
    /\ r_ret[1].match_score = 2 /\ r_ret[1].id = "d3.json"
    /\ r_ret[2].match_score = 1 /\ r_ret[2].id = "d1.json"
    /\ Cardinality(LeftOut) = 1

QuoteChars == {"\"", "'"}

\* s is wrapped in a pair of quote characters, and s without that one pair.
Wrapped(s) == Len(s) >= 2 /\ Ch(s, 1) \in QuoteChars /\ Ch(s, Len(s)) = Ch(s, 1)
Unquoted(s) == s = "" \/ (Ch(s, 1) \notin QuoteChars /\ Ch(s, Len(s)) \notin QuoteChars)
OneLayerRemoved(s) == IF Wrapped(s) THEN SubSeq(s, 2, Len(s) - 1) ELSE s

(***************************************************************************)
(* C12.  In the process family the name in the three templates is the      *)
(* artifact (surrounding whitespace aside) with exactly one layer of       *)
(* surrounding quote characters removed: an unquoted name is used          *)
(* unchanged, and a name wrapped in a pair of quotes loses that pair only, *)
(* whatever quote characters the rest begins or ends with.                 *)
(***************************************************************************)
C12_OneQuoteLayerRemoved ==
    LET name == StrStrip(artifact[2], Whitespace)
    IN  (GeneratedForStrings /\ ret.family = "process" /\ (Unquoted(name) \/ Wrapped(name)))
            => ret.queries = ProcessTemplates(OneLayerRemoved(name))

IocTags == {"ip", "domain", "sha256", "sha1", "md5"}

\* The tags whose pattern matches s, each pattern tried on its own.
MatchingTags(s) ==
    {t \in IocTags :
        CASE t = "ip"     -> IP_RE(s)
          [] t = "domain" -> DOMAIN_RE(s)
          [] t = "sha256" -> SHA256_RE(s)
          [] t = "sha1"   -> SHA1_RE(s)
          [] t = "md5"    -> MD5_RE(s)}

(***************************************************************************)
(* C13.  The five classifier patterns are mutually exclusive: no string,   *)
(* trimmed or not, matches more than one of them, so classify_ioc returns  *)
(* the tag of the one pattern that matches the trimmed artifact whatever   *)
(* the order of the checks, and None when none matches; a string of 64 hex *)
(* digits is sha256 and a string of 40 hex digits is sha1.                 *)
(***************************************************************************)
C13_PatternsMutuallyExclusive ==
    (called = "classify_ioc" /\ ~IsNone(artifact)) =>
        LET s    == StrStrip(artifact[2], Whitespace)
            tags == MatchingTags(s)
        IN  /\ Cardinality(MatchingTags(artifact[2])) <= 1
            /\ Cardinality(tags) <= 1
            /\ \A t \in IocTags : ret = Str(t) <=> t \in tags
            /\ ret = None <=> tags = {}
            /\ HexString(s, 64) => ret = Str("sha256")
            /\ HexString(s, 40) => ret = Str("sha1")

C13_Witness ==
    /\ called = "classify_ioc"
    /\ ~IsNone(artifact)
    /\ HexString(StrStrip(artifact[2], Whitespace), 64)
    /\ MatchingTags(StrStrip(artifact[2], Whitespace)) = {"sha256"}
    /\ ret = Str("sha256")

====
